---- MODULE Spec2Model ----
(***************************************************************************)
(* A model of the runtime generics analyzer (src/analyzer.py).             *)
(*                                                                         *)
(* Five specifications share the module, one per part of the program:      *)
(*   SpecPath    _convert_to_module_path                                   *)
(*   SpecDetect  GenericClassVisitor, one handler call per step            *)
(*   SpecPatch   FileTransformer, applied twice in sequence                *)
(*   Spec        compare_files, run and re-run on one stub/implementation  *)
(*   SpecDirs    compare_dirs, one loop iteration per step                 *)
(*                                                                         *)
(* Text is modelled as a sequence of one-character strings where the code  *)
(* works on characters (str.rstrip), and as a sequence of identifiers      *)
(* where it works on dotted names ("typing.TypeVar" is <<"typing",         *)
(* "TypeVar">>, the empty string is <<>>).  None is "" where the code      *)
(* holds an optional identifier.                                           *)
(***************************************************************************)
EXTENDS Naturals, Sequences, FiniteSets, TLC

VARIABLES
    \* SpecPath
    path_parts, ext, module_path, path_pc,
    \* SpecDetect
    stub, pos, visitor,
    \* SpecPatch
    src0, names1, src1, names2, src2, patch_pc,
    \* Spec
    path_to_impl, path_to_stub, impl_file, stub_file, runtime, run1, run2, cmp_pc,
    \* SpecDirs
    stub_dir, impl_dir, args, frames, log, written, dirs_pc

pathVars == <<path_parts, ext, module_path, path_pc>>
detVars == <<stub, pos, visitor>>
patchVars == <<src0, names1, src1, names2, src2, patch_pc>>
cmpVars == <<path_to_impl, path_to_stub, impl_file, stub_file, runtime, run1, run2, cmp_pc>>
dirVars == <<stub_dir, impl_dir, args, frames, log, written, dirs_pc>>

Last(s) == s[Len(s)]
Front(s) == SubSeq(s, 1, Len(s) - 1)
ToSet(s) == {s[i] : i \in 1..Len(s)}
SeqsUpTo(S, n) == UNION {[1..k -> S] : k \in 0..n}
NonEmptySeqsUpTo(S, n) == UNION {[1..k -> S] : k \in 1..n}

(***************************************************************************)
(* _convert_to_module_path                                                 *)
(***************************************************************************)

\* Bounds of the path inputs.
MaxDirs == 1
MaxStem == 2

PY == <<".", "p", "y">>
PYI == <<".", "p", "y", "i">>
StemChars == {"a", "p", "y", "i", "."}
DirNames == {<<"a">>, <<"p", "y">>}

\* str.join: the parts with sep between them.
RECURSIVE join(_, _)
join(sep, parts) ==
    IF parts = <<>> THEN <<>>
    ELSE IF Len(parts) = 1 THEN parts[1]
    ELSE parts[1] \o sep \o join(sep, Tail(parts))

\* str.rstrip(chars): drops every trailing character that is one of chars.
RECURSIVE rstrip(_, _)
rstrip(s, chars) ==
    IF s # <<>> /\ Last(s) \in ToSet(chars) THEN rstrip(Front(s), chars) ELSE s

_convert_to_module_path(path, e) == rstrip(join(<<".">>, path), e)

PathInit ==
    /\ ext \in {PY, PYI}
    /\ \E dirs \in SeqsUpTo(DirNames, MaxDirs), stem \in NonEmptySeqsUpTo(StemChars, MaxStem) :
          /\ stem[1] # "."
          /\ path_parts = dirs \o <<stem \o ext>>
    /\ module_path = <<>>
    /\ path_pc = "start"

PathIdle ==
    /\ ext = <<>>
    /\ path_parts = <<>>
    /\ module_path = <<>>
    /\ path_pc = "idle"

Convert ==
    /\ path_pc = "start"
    /\ module_path' = _convert_to_module_path(path_parts, ext)
    /\ path_pc' = "done"
    /\ UNCHANGED <<path_parts, ext>>

(***************************************************************************)
(* GenericClassVisitor                                                     *)
(***************************************************************************)

\* Syntax nodes of a stub.  An import alias is [name, asname] (asname "" for
\* none); a call target is a dotted name, <<"TypeVar">> for cst.Name and
\* <<"typing", "TypeVar">> for cst.Attribute; a base is [subscript, slice].
Alias(n, a) == [name |-> n, asname |-> a]
Import(names) == [kind |-> "Import", names |-> names]
ImportFrom(m, names) == [kind |-> "ImportFrom", module |-> m, star |-> FALSE, names |-> names]
ImportStar(m) == [kind |-> "ImportFrom", module |-> m, star |-> TRUE, names |-> <<>>]
AssignCall(t, f) == [kind |-> "Assign", target |-> t, call |-> TRUE, func |-> f]
AssignOther(t) == [kind |-> "Assign", target |-> t, call |-> FALSE, func |-> <<>>]
Base(n) == [subscript |-> FALSE, value |-> n, slice |-> <<>>]
SubscriptBase(n, idx) == [subscript |-> TRUE, value |-> n, slice |-> idx]
StubClass(n, tp, bases) == [kind |-> "ClassDef", name |-> n, type_parameters |-> tp, bases |-> bases]

\* GenericClassVisitor.__init__
NewVisitor == [_typevar_name |-> <<>>, _typevars |-> <<>>, _generic_class_names |-> <<>>]

\* The local name the first alias of namespace is bound to, "" (None) without one.
RECURSIVE _find_TypeVar_names(_, _)
_find_TypeVar_names(names, namespace) ==
    IF names = <<>> THEN ""
    ELSE IF names[1].name # namespace THEN _find_TypeVar_names(Tail(names), namespace)
    ELSE IF names[1].asname # "" THEN names[1].asname
    ELSE names[1].name

_find_TypeVar(node, namespace) == _find_TypeVar_names(node.names, namespace)

\* A mutant of visit_Import: the first import of typing wins.
visit_Import_FirstWins(self, node) ==
    LET name == _find_TypeVar(node, "typing") IN
    IF name # "" /\ self._typevar_name = <<>>
    THEN [self EXCEPT !._typevar_name = <<name, "TypeVar">>]
    ELSE self

visit_Import(self, node) ==
    LET name == _find_TypeVar(node, "typing") IN
    IF name # "" THEN [self EXCEPT !._typevar_name = <<name, "TypeVar">>] ELSE self

visit_ImportFrom(self, node) ==
    IF node.module # "typing" THEN self
    ELSE IF node.star THEN [self EXCEPT !._typevar_name = <<"TypeVar">>]
    ELSE LET name == _find_TypeVar(node, "TypeVar") IN
         IF name # "" THEN [self EXCEPT !._typevar_name = <<name>>] ELSE self

visit_Assign(self, node) ==
    IF self._typevar_name = <<>> THEN self
    ELSE IF ~node.call THEN self
    ELSE IF Len(node.func) = 2
    THEN \* cst.Attribute
         IF Len(self._typevar_name) < 2 THEN self
         ELSE IF <<node.func[1], node.func[2]>> = <<self._typevar_name[1], self._typevar_name[2]>>
         THEN [self EXCEPT !._typevars = Append(@, node.target)]
         ELSE self
    ELSE \* cst.Name
         IF node.func # self._typevar_name THEN self
         ELSE [self EXCEPT !._typevars = Append(@, node.target)]

\* The inner loops of visit_ClassDef: whether some subscripted base has an
\* index that is a registered type variable.
SliceHit(slice, typevars) == \E i \in 1..Len(slice) : slice[i] \in ToSet(typevars)
BasesHit(bases, typevars) ==
    \E b \in 1..Len(bases) : bases[b].subscript /\ SliceHit(bases[b].slice, typevars)

visit_ClassDef(self, node) ==
    IF node.type_parameters
    THEN [self EXCEPT !._generic_class_names = Append(@, node.name)]
    ELSE IF BasesHit(node.bases, self._typevars)
    THEN [self EXCEPT !._generic_class_names = Append(@, node.name)]
    ELSE self

\* The visitor's dispatch on the node's type.
on_visit(self, node) ==
    CASE node.kind = "Import" -> visit_Import(self, node)
      [] node.kind = "ImportFrom" -> visit_ImportFrom(self, node)
      [] node.kind = "Assign" -> visit_Assign(self, node)
      [] node.kind = "ClassDef" -> visit_ClassDef(self, node)

\* tree.visit(visitor) on the statements from i on.
RECURSIVE VisitFrom(_, _, _)
VisitFrom(self, stmts, i) ==
    IF i > Len(stmts) THEN self ELSE VisitFrom(on_visit(self, stmts[i]), stmts, i + 1)

_get_ast_generic_classes(stmts) == VisitFrom(NewVisitor, stmts, 1)._generic_class_names

\* Bound of the stub inputs.
MaxStub == 3

StubImports ==
    { Import(<<Alias("typing", "")>>),
      Import(<<Alias("os", ""), Alias("typing", "tp")>>),
      ImportFrom("typing", <<Alias("TypeVar", "")>>),
      ImportFrom("typing", <<Alias("Generic", ""), Alias("TypeVar", "TV")>>),
      ImportFrom("typing", <<Alias("Generic", "")>>),
      ImportFrom("os", <<Alias("TypeVar", "")>>),
      ImportStar("typing") }
StubAssigns ==
    { AssignCall("T", <<"TypeVar">>),
      AssignCall("T", <<"typing", "TypeVar">>),
      AssignCall("U", <<"tp", "TypeVar">>),
      AssignCall("U", <<"TV">>),
      AssignOther("T") }
StubClasses ==
    { StubClass("A", TRUE, <<>>),
      StubClass("A", FALSE, <<SubscriptBase("Generic", <<"T">>)>>),
      StubClass("B", FALSE, <<Base("A"), SubscriptBase("Generic", <<"K", "U">>)>>),
      StubClass("B", FALSE, <<Base("A")>>) }
StubStatements == StubImports \cup StubAssigns \cup StubClasses

DetectInit ==
    /\ stub \in SeqsUpTo(StubStatements, MaxStub)
    /\ pos = 1
    /\ visitor = NewVisitor

DetectIdle ==
    /\ stub = <<>>
    /\ pos = 0
    /\ visitor = NewVisitor

VisitStep(kind, handler(_, _)) ==
    /\ pos \in 1..Len(stub)
    /\ stub[pos].kind = kind
    /\ visitor' = handler(visitor, stub[pos])
    /\ pos' = pos + 1
    /\ UNCHANGED stub

VisitImport == VisitStep("Import", visit_Import)
VisitImportFrom == VisitStep("ImportFrom", visit_ImportFrom)
VisitAssign == VisitStep("Assign", visit_Assign)
VisitClassDef == VisitStep("ClassDef", visit_ClassDef)

(***************************************************************************)
(* FileTransformer                                                         *)
(***************************************************************************)

\* Syntax nodes of an implementation file.  The statements of a block (the
\* module, a function body, an IndentedBlock) are ClassDef, FunctionDef and
\* Line, a SimpleStatementLine of small statements; a one-line class body, a
\* SimpleStatementSuite, holds small statements directly.
Pass == [kind |-> "Pass"]
Line(small) == [kind |-> "SimpleStatementLine", body |-> small]
ClassDef(n, suite, body) == [kind |-> "ClassDef", name |-> n, suite |-> suite, body |-> body]
FunctionDef(n, body) == [kind |-> "FunctionDef", name |-> n, body |-> body]
\* __class_getitem__ = classmethod(<alias>)
ClassGetItem(alias) == [kind |-> "Assign", target |-> "__class_getitem__", call |-> TRUE,
                        func |-> <<"classmethod">>, arg |-> alias]

\* FileTransformer.__init__
NewTransformer(names) == [_generic_class_names |-> names, _generic_alias_cls |-> <<>>]

_find_GenericAlias(node, namespace) == _find_TypeVar_names(node.names, namespace)

FT_visit_Import(self, node) ==
    LET name == _find_GenericAlias(node, "types") IN
    IF name # "" THEN [self EXCEPT !._generic_alias_cls = <<name, "GenericAlias">>] ELSE self

FT_visit_ImportFrom(self, node) ==
    IF node.module # "types" THEN self
    ELSE IF node.star THEN [self EXCEPT !._generic_alias_cls = <<"GenericAlias">>]
    ELSE LET name == _find_GenericAlias(node, "GenericAlias") IN
         IF name # "" THEN [self EXCEPT !._generic_alias_cls = <<name>>] ELSE self

\* cst.parse_statement("from types import GenericAlias")
SynthImport == Line(<<ImportFrom("types", <<Alias("GenericAlias", "")>>)>>)

\* The handler's result: the transformer, and the nodes that replace the
\* class in its parent's body (two for a FlattenSentinel).
leave_ClassDef(self, original_node, updated_node) ==
    IF original_node.name \in self._generic_class_names
    THEN LET synth == self._generic_alias_cls = <<>>
             self2 == IF synth THEN [self EXCEPT !._generic_alias_cls = <<"GenericAlias">>]
                      ELSE self
             member == Line(<<ClassGetItem(self2._generic_alias_cls)>>)
             statements == IF original_node.suite = "SimpleStatementSuite"
                           THEN <<Line(original_node.body)>>
                           ELSE original_node.body
             new_node == [updated_node EXCEPT !.suite = "IndentedBlock",
                                              !.body = statements \o <<member>>]
         IN [self |-> self2,
             nodes |-> IF synth THEN <<SynthImport, new_node>> ELSE <<new_node>>]
    ELSE [self |-> self, nodes |-> <<updated_node>>]

\* libcst's traversal: a node is visited, then its children in order, then
\* left; what a child's leave returns replaces the child in the updated
\* parent.
RECURSIVE FT_visit(_, _), FT_visit_body(_, _)
FT_visit(self, node) ==
    CASE node.kind = "Import" -> [self |-> FT_visit_Import(self, node), nodes |-> <<node>>]
      [] node.kind = "ImportFrom" -> [self |-> FT_visit_ImportFrom(self, node), nodes |-> <<node>>]
      [] node.kind = "ClassDef" ->
            LET r == FT_visit_body(self, node.body) IN
            leave_ClassDef(r.self, node, [node EXCEPT !.body = r.nodes])
      [] node.kind \in {"FunctionDef", "SimpleStatementLine"} ->
            LET r == FT_visit_body(self, node.body) IN
            [self |-> r.self, nodes |-> <<[node EXCEPT !.body = r.nodes]>>]
      [] OTHER -> [self |-> self, nodes |-> <<node>>]
FT_visit_body(self, stmts) ==
    IF stmts = <<>> THEN [self |-> self, nodes |-> <<>>]
    ELSE LET r == FT_visit(self, stmts[1])
             rest == FT_visit_body(r.self, Tail(stmts))
         IN [self |-> rest.self, nodes |-> r.nodes \o rest.nodes]

\* tree.visit(FileTransformer(names)): the module is its body.
Transform(tree, names) == FT_visit_body(NewTransformer(names), tree).nodes

(***************************************************************************)
(* Python's reading of an implementation file                              *)
(***************************************************************************)

\* The dotted names an import statement makes usable for the alias facility
\* types.GenericAlias.
LocalOf(a) == IF a.asname # "" THEN a.asname ELSE a.name
AliasesBound(small) ==
    IF small.kind = "Import"
    THEN {<<LocalOf(small.names[i]), "GenericAlias">> :
             i \in {k \in 1..Len(small.names) : small.names[k].name = "types"}}
    ELSE IF small.kind = "ImportFrom" /\ small.module = "types"
    THEN IF small.star THEN {<<"GenericAlias">>}
         ELSE {<<LocalOf(small.names[i])>> :
                  i \in {k \in 1..Len(small.names) : small.names[k].name = "GenericAlias"}}
    ELSE {}

IsClassGetItem(small) == small.kind = "Assign" /\ small.target = "__class_getitem__"

\* Whether some __class_getitem__ member of stmts names an alias that no
\* import binds where Python looks it up: in the statements before it of its
\* own scope (own), then in the enclosing function and module scopes (outer),
\* never in an enclosing class body.  Function bodies run only when called:
\* they are entered with enterFuncs, for the lexical reading.
RECURSIVE Unbound(_, _, _, _, _)
Unbound(stmts, isClass, outer, own, enterFuncs) ==
    IF stmts = <<>> THEN FALSE
    ELSE LET s == stmts[1]
             rest == Tail(stmts)
             inner == IF isClass THEN outer ELSE outer \cup own
         IN CASE s.kind = "SimpleStatementLine" ->
                    Unbound(s.body \o rest, isClass, outer, own, enterFuncs)
              [] s.kind \in {"Import", "ImportFrom"} ->
                    Unbound(rest, isClass, outer, own \cup AliasesBound(s), enterFuncs)
              [] s.kind = "Assign" ->
                    \/ IsClassGetItem(s) /\ s.arg \notin (outer \cup own)
                    \/ Unbound(rest, isClass, outer, own, enterFuncs)
              [] s.kind = "ClassDef" ->
                    \/ Unbound(s.body, TRUE, inner, {}, enterFuncs)
                    \/ Unbound(rest, isClass, outer, own, enterFuncs)
              [] s.kind = "FunctionDef" ->
                    \/ enterFuncs /\ Unbound(s.body, FALSE, inner, {}, enterFuncs)
                    \/ Unbound(rest, isClass, outer, own, enterFuncs)
              [] OTHER -> Unbound(rest, isClass, outer, own, enterFuncs)

\* Executing the module raises NameError.
ModuleRaises(tree) == Unbound(tree, FALSE, {}, {}, FALSE)

\* The small statements of a class body, lines flattened.
RECURSIVE SmallsOf(_)
SmallsOf(body) ==
    IF body = <<>> THEN <<>>
    ELSE IF body[1].kind = "SimpleStatementLine" THEN body[1].body \o SmallsOf(Tail(body))
    ELSE IF body[1].kind \in {"ClassDef", "FunctionDef"} THEN SmallsOf(Tail(body))
    ELSE <<body[1]>> \o SmallsOf(Tail(body))

\* hasattr(cls, "__class_getitem__") of a class object built from node.
HasClassGetItem(node) == \E i \in 1..Len(SmallsOf(node.body)) : IsClassGetItem(SmallsOf(node.body)[i])

\* The classes bound in the module's namespace, name -> class node: a later
\* definition rebinds the name.
TopClassIndex(tree, n) ==
    LET I == {i \in 1..Len(tree) : tree[i].kind = "ClassDef" /\ tree[i].name = n} IN
    IF I = {} THEN 0 ELSE CHOOSE i \in I : \A k \in I : k <= i
ModuleClassNames(tree) == {tree[i].name : i \in {k \in 1..Len(tree) : tree[k].kind = "ClassDef"}}

\* Bound of the implementation inputs: the statements of a module.
MaxTop == 2

ClassNames == {"A", "B"}
ImportGenericAlias == ImportFrom("types", <<Alias("GenericAlias", "")>>)
ImportTypes == Import(<<Alias("types", "")>>)
\* The statements an implementation module is built from: imports of the
\* alias facility, classes without and with the capability, one-line and
\* indented bodies, classes nested in classes, a class that imports in its
\* own body, functions holding an import or a class.
ImplStatements ==
    {Line(<<ImportGenericAlias>>), Line(<<ImportTypes>>)}
    \cup {ClassDef(n, "SimpleStatementSuite", <<Pass>>) : n \in ClassNames}
    \cup {ClassDef(n, "IndentedBlock", <<Line(<<Pass>>), Line(<<Pass>>)>>) : n \in {"A"}}
    \cup {ClassDef(n, "SimpleStatementSuite", <<ClassGetItem(<<"GenericAlias">>)>>) : n \in {"B"}}
    \cup {ClassDef(n, "IndentedBlock", <<ClassDef(m, "SimpleStatementSuite", <<Pass>>)>>) :
             n \in ClassNames, m \in ClassNames}
    \cup {ClassDef(n, "IndentedBlock", <<Line(<<ImportTypes>>), Line(<<Pass>>)>>) : n \in {"A"}}
    \cup {FunctionDef("f", <<Line(<<ImportTypes>>)>>),
          FunctionDef("f", <<ClassDef("A", "SimpleStatementSuite", <<Pass>>)>>)}
ImplFiles == NonEmptySeqsUpTo(ImplStatements, MaxTop)
NameSets == SUBSET ClassNames \ {{}}

PatchInit ==
    /\ src0 \in ImplFiles
    /\ names1 \in NameSets
    /\ names2 \in NameSets
    /\ src1 = <<>>
    /\ src2 = <<>>
    /\ patch_pc = "start"

PatchIdle ==
    /\ src0 = <<>> /\ src1 = <<>> /\ src2 = <<>>
    /\ names1 = {} /\ names2 = {}
    /\ patch_pc = "idle"

\* tree.visit(FileTransformer(names1)) on the file.
ApplyFirst ==
    /\ patch_pc = "start"
    /\ src1' = Transform(src0, names1)
    /\ patch_pc' = "once"
    /\ UNCHANGED <<src0, names1, names2, src2>>

\* tree.visit(FileTransformer(names2)) on the first run's output.
ApplySecond ==
    /\ patch_pc = "once"
    /\ src2' = Transform(src1, names2)
    /\ patch_pc' = "twice"
    /\ UNCHANGED <<src0, names1, names2, src1>>

(***************************************************************************)
(* Python's reading of a stub, for the dynamic detector                    *)
(***************************************************************************)

\* What a name is bound to while the stub runs as a module: "module" (the
\* typing module), "TypeVar" and "Generic" (the typing members), "typevar",
\* "generic_class", "class", "other"; "" when unbound.
TagOf(env, n) == IF n \in DOMAIN env THEN env[n] ELSE ""
Bind(env, n, tag) == [x \in DOMAIN env \cup {n} |-> IF x = n THEN tag ELSE env[x]]
RaisedEnv == [raised |-> TRUE, env |-> <<>>]

RECURSIVE BindImport(_, _), BindImportFrom(_, _, _)
BindImport(env, names) ==
    IF names = <<>> THEN [raised |-> FALSE, env |-> env]
    ELSE BindImport(Bind(env, LocalOf(names[1]),
                         IF names[1].name = "typing" THEN "module" ELSE "other"),
                    Tail(names))
BindImportFrom(env, module, names) ==
    IF names = <<>> THEN [raised |-> FALSE, env |-> env]
    ELSE IF module = "typing" /\ names[1].name \in {"TypeVar", "Generic"}
    THEN BindImportFrom(Bind(env, LocalOf(names[1]), names[1].name), module, Tail(names))
    ELSE RaisedEnv  \* ImportError: the module has no such name

BaseOk(env, b) ==
    IF b.subscript
    THEN /\ TagOf(env, b.value) \in {"Generic", "generic_class"}
         /\ \A i \in 1..Len(b.slice) : TagOf(env, b.slice[i]) = "typevar"
    ELSE TagOf(env, b.value) \in {"class", "generic_class"}
BaseGeneric(env, b) == b.subscript \/ TagOf(env, b.value) = "generic_class"

ExecStub(env, node) ==
    CASE node.kind = "Import" -> BindImport(env, node.names)
      [] node.kind = "ImportFrom" ->
            IF node.star
            THEN [raised |-> FALSE,
                  env |-> IF node.module = "typing"
                          THEN Bind(Bind(env, "TypeVar", "TypeVar"), "Generic", "Generic")
                          ELSE env]
            ELSE BindImportFrom(env, node.module, node.names)
      [] node.kind = "Assign" ->
            IF ~node.call THEN [raised |-> FALSE, env |-> Bind(env, node.target, "other")]
            ELSE IF \/ Len(node.func) = 1 /\ TagOf(env, node.func[1]) = "TypeVar"
                    \/ Len(node.func) = 2 /\ TagOf(env, node.func[1]) = "module"
                                          /\ node.func[2] = "TypeVar"
            THEN [raised |-> FALSE, env |-> Bind(env, node.target, "typevar")]
            ELSE RaisedEnv  \* NameError, AttributeError or TypeError
      [] node.kind = "ClassDef" ->
            IF \A b \in 1..Len(node.bases) : BaseOk(env, node.bases[b])
            THEN [raised |-> FALSE,
                  env |-> Bind(env, node.name,
                               IF \/ node.type_parameters
                                  \/ \E b \in 1..Len(node.bases) : BaseGeneric(env, node.bases[b])
                               THEN "generic_class" ELSE "class")]
            ELSE RaisedEnv

RECURSIVE ExecStubFrom(_, _)
ExecStubFrom(env, stmts) ==
    IF stmts = <<>> THEN [raised |-> FALSE, env |-> env]
    ELSE LET r == ExecStub(env, stmts[1]) IN
         IF r.raised THEN r ELSE ExecStubFrom(r.env, Tail(stmts))

(***************************************************************************)
(* compare_files                                                           *)
(***************************************************************************)

\* The name the interpreter knows the file's module by.
TrueModuleName(path, e) ==
    LET dotted == join(<<".">>, path) IN SubSeq(dotted, 1, Len(dotted) - Len(e))

\* importlib.import_module(name) of the module stored at path: it is found
\* under its own name only.
ModuleFound(name, path, e) == name = TrueModuleName(path, e)

\* _get_runtime_generic_classes: the names of the classes of the stub module
\* that have __class_getitem__; raised when the import raises.
_get_runtime_generic_classes(path, stmts) ==
    LET stubs_import_path == _convert_to_module_path(path, PYI)
        r == ExecStubFrom(<<>>, stmts)
    IN IF ~ModuleFound(stubs_import_path, path, PYI) \/ r.raised
       THEN [raised |-> TRUE, names |-> {}]
       ELSE [raised |-> FALSE,
             names |-> {n \in DOMAIN r.env : r.env[n] = "generic_class"}]

\* get_generic_classes, as bound at start-up from args.runtime.
get_generic_classes(rt, path, stmts) ==
    IF rt THEN _get_runtime_generic_classes(path, stmts)
    ELSE [raised |-> FALSE, names |-> ToSet(_get_ast_generic_classes(stmts))]

\* A mutant of NoGenericClasses: the fast path is never taken.
NoGenericClasses_Never(generic_classes) == FALSE

\* `if not generic_classes`
NoGenericClasses(generic_classes) == generic_classes = {}

\* A mutant of FixRequested: the file is fixed whatever the flag.
FixRequested_Always(non_subscriptable_classes, fix) == non_subscriptable_classes # {}

\* `if not non_subscriptable_classes: ... elif fix is True:`
FixRequested(non_subscriptable_classes, fix) == non_subscriptable_classes # {} /\ fix

\* The loop over inspect.getmembers(module, inspect.isclass).
NonSubscriptable(tree, generic_classes) ==
    {n \in ModuleClassNames(tree) :
        ~HasClassGetItem(tree[TopClassIndex(tree, n)]) /\ n \in generic_classes}

\* One call of compare_files, as what it did: raised (an exception left the
\* call), the generic classes found, whether the implementation module was
\* imported and whether that failed, the classes reported, and the file's
\* content before and after.
Outcome(fix, raised, generic, imported, failed, errors, wrote, before, after) ==
    [fix |-> fix, raised |-> raised, generic |-> generic, import_called |-> imported,
     import_failed |-> failed, errors |-> errors, wrote |-> wrote,
     before |-> before, after |-> after]
NoRun == [fix |-> FALSE, raised |-> FALSE, generic |-> {}, import_called |-> FALSE,
          import_failed |-> FALSE, errors |-> {}, wrote |-> FALSE,
          before |-> <<>>, after |-> <<>>]

compare_files(impl_path, stub_path, impl, stb, fix, rt) ==
    LET g == get_generic_classes(rt, stub_path, stb)
        impl_import_path == _convert_to_module_path(impl_path, PY)
        failed == ~ModuleFound(impl_import_path, impl_path, PY) \/ ModuleRaises(impl)
        non_subscriptable_classes == NonSubscriptable(impl, g.names)
    IN IF g.raised
       THEN Outcome(fix, TRUE, {}, FALSE, FALSE, {}, FALSE, impl, impl)
       ELSE IF NoGenericClasses(g.names)
       THEN Outcome(fix, FALSE, g.names, FALSE, FALSE, {}, FALSE, impl, impl)
       ELSE IF failed
       THEN Outcome(fix, FALSE, g.names, TRUE, TRUE, {}, FALSE, impl, impl)
       ELSE IF FixRequested(non_subscriptable_classes, fix)
       THEN Outcome(fix, FALSE, g.names, TRUE, FALSE, non_subscriptable_classes, TRUE,
                    impl, Transform(impl, non_subscriptable_classes))
       ELSE Outcome(fix, FALSE, g.names, TRUE, FALSE, non_subscriptable_classes, FALSE,
                    impl, impl)

ImplRoot == <<"l">>
StubRoot == <<"s">>
Stems == {<<"m">>, <<"u", "p">>}
CmpStubs ==
    { <<>>,
      <<StubClass("A", TRUE, <<>>)>>,
      <<StubClass("A", TRUE, <<>>), StubClass("B", TRUE, <<>>)>>,
      <<ImportStar("typing"), AssignCall("T", <<"TypeVar">>),
        StubClass("A", FALSE, <<SubscriptBase("Generic", <<"T">>)>>)>>,
      <<AssignCall("T", <<"TypeVar">>), ImportStar("typing"),
        StubClass("A", FALSE, <<SubscriptBase("Generic", <<"T">>)>>)>> }

CmpInit ==
    /\ \E stem \in Stems :
          /\ path_to_impl = <<ImplRoot, stem \o PY>>
          /\ path_to_stub = <<StubRoot, stem \o PYI>>
    /\ impl_file \in ImplFiles
    /\ stub_file \in CmpStubs
    /\ runtime \in BOOLEAN
    /\ run1 = NoRun
    /\ run2 = NoRun
    /\ cmp_pc = "start"

CmpIdle ==
    /\ path_to_impl = <<>> /\ path_to_stub = <<>>
    /\ impl_file = <<>> /\ stub_file = <<>>
    /\ runtime = FALSE
    /\ run1 = NoRun /\ run2 = NoRun
    /\ cmp_pc = "idle"

\* compare_files on the pair, in a fresh process.
Run ==
    /\ cmp_pc = "start"
    /\ \E fix \in BOOLEAN :
          run1' = compare_files(path_to_impl, path_to_stub, impl_file, stub_file, fix, runtime)
    /\ impl_file' = run1'.after
    /\ cmp_pc' = "ran"
    /\ UNCHANGED <<path_to_impl, path_to_stub, stub_file, runtime, run2>>

\* compare_files on the same pair again, in another fresh process.
ReRun ==
    /\ cmp_pc = "ran"
    /\ \E fix \in BOOLEAN :
          run2' = compare_files(path_to_impl, path_to_stub, impl_file, stub_file, fix, runtime)
    /\ impl_file' = run2'.after
    /\ cmp_pc' = "reran"
    /\ UNCHANGED <<path_to_impl, path_to_stub, stub_file, runtime, run1>>

(***************************************************************************)
(* compare_dirs                                                            *)
(***************************************************************************)

\* IGNORE_NAMES: the parentheses hold no comma, so it is the string itself.
IGNORE_NAMES == <<"_", "_", "p", "y", "c", "a", "c", "h", "e", "_", "_">>

\* `name in IGNORE_NAMES` on a string: a substring test.
InString(name, text) ==
    \E i \in 1..(Len(text) + 1) :
        i + Len(name) - 1 <= Len(text) /\ SubSeq(text, i, i + Len(name) - 1) = name

\* Path.suffix: the name from its last dot on, when that dot is neither the
\* first nor the last character.
suffix(name) ==
    LET I == {i \in 2..(Len(name) - 1) : name[i] = "."} IN
    IF I = {} THEN <<>> ELSE SubSeq(name, CHOOSE i \in I : \A k \in I : k <= i, Len(name))

\* str.replace(old, new): every occurrence, left to right.
RECURSIVE replace(_, _, _)
replace(s, old, new) ==
    IF Len(s) < Len(old) \/ old = <<>> THEN s
    ELSE IF SubSeq(s, 1, Len(old)) = old
    THEN new \o replace(SubSeq(s, Len(old) + 1, Len(s)), old, new)
    ELSE <<s[1]>> \o replace(Tail(s), old, new)

\* The entries of the two trees.  A stub directory is the sequence iterdir
\* yields; an implementation directory is the set of its entries.
FileEntry(name, content) == [name |-> name, is_dir |-> FALSE, content |-> content, children |-> <<>>]
StubDirEntry(name, children) == [name |-> name, is_dir |-> TRUE, content |-> <<>>, children |-> children]
ImplDirEntry(name, children) == [name |-> name, is_dir |-> TRUE, content |-> <<>>, children |-> children]

\* The name compare_dirs looks up in the implementation directory.
ImplName(p) == IF suffix(p.name) = PYI THEN replace(p.name, suffix(p.name), PY) ELSE p.name
Exists(dir, name) == \E e \in dir : e.name = name
Entry(dir, name) == CHOOSE e \in dir : e.name = name

Top == frames[Len(frames)]
Current == Top.stubs[Top.i]
Advance == [frames EXCEPT ![Len(frames)].i = @ + 1]
Record(p, what) ==
    Append(log, [path |-> Top.stub_path \o <<p.name>>,
                 impl |-> Top.impl_path \o <<ImplName(p)>>, result |-> what])
InLoop == dirs_pc = "running" /\ frames # <<>> /\ Top.i <= Len(Top.stubs)

\* `if name in IGNORE_NAMES: continue`
DirIgnored ==
    /\ InLoop
    /\ InString(Current.name, IGNORE_NAMES)
    /\ frames' = Advance
    /\ log' = Record(Current, "skipped")
    /\ UNCHANGED <<stub_dir, impl_dir, args, written, dirs_pc>>

\* `if impl_path.exists() is False: continue`
DirMissing ==
    /\ InLoop
    /\ ~InString(Current.name, IGNORE_NAMES)
    /\ ~Exists(Top.impl, ImplName(Current))
    /\ frames' = Advance
    /\ log' = Record(Current, "missing")
    /\ UNCHANGED <<stub_dir, impl_dir, args, written, dirs_pc>>

\* `if p.is_dir() and impl_path.is_dir(): compare_dirs(impl_path, p, fix=fix)`
DirRecurse ==
    /\ InLoop
    /\ ~InString(Current.name, IGNORE_NAMES)
    /\ Exists(Top.impl, ImplName(Current))
    /\ Current.is_dir /\ Entry(Top.impl, ImplName(Current)).is_dir
    /\ frames' = Append(Advance,
                        [stubs |-> Current.children,
                         impl |-> Entry(Top.impl, ImplName(Current)).children,
                         stub_path |-> Top.stub_path \o <<Current.name>>,
                         impl_path |-> Top.impl_path \o <<ImplName(Current)>>,
                         i |-> 1])
    /\ log' = Record(Current, "recursed")
    /\ UNCHANGED <<stub_dir, impl_dir, args, written, dirs_pc>>

\* `elif p.is_file() and impl_path.is_file(): compare_files(impl_path, p, fix=fix)`:
\* an exception that leaves compare_files leaves compare_dirs and main too.
DirCompare ==
    /\ InLoop
    /\ ~InString(Current.name, IGNORE_NAMES)
    /\ Exists(Top.impl, ImplName(Current))
    /\ ~Current.is_dir /\ ~Entry(Top.impl, ImplName(Current)).is_dir
    /\ LET impl_path == Top.impl_path \o <<ImplName(Current)>>
           r == compare_files(impl_path, Top.stub_path \o <<Current.name>>,
                              Entry(Top.impl, ImplName(Current)).content,
                              Current.content, args.fix, args.runtime)
       IN /\ written' = IF r.wrote THEN written \cup {impl_path} ELSE written
          /\ IF r.raised
             THEN /\ dirs_pc' = "crashed"
                  /\ log' = Record(Current, "raised")
                  /\ UNCHANGED frames
             ELSE /\ frames' = Advance
                  /\ log' = Record(Current, IF r.import_failed THEN "import_failed"
                                            ELSE "compared")
                  /\ UNCHANGED dirs_pc
    /\ UNCHANGED <<stub_dir, impl_dir, args>>

\* `else: ... Can't compare directory to file ...; continue`
DirMismatch ==
    /\ InLoop
    /\ ~InString(Current.name, IGNORE_NAMES)
    /\ Exists(Top.impl, ImplName(Current))
    /\ Current.is_dir # Entry(Top.impl, ImplName(Current)).is_dir
    /\ frames' = Advance
    /\ log' = Record(Current, "mismatch")
    /\ UNCHANGED <<stub_dir, impl_dir, args, written, dirs_pc>>

\* The loop is exhausted: compare_dirs returns to its caller.
DirReturn ==
    /\ dirs_pc = "running" /\ frames # <<>> /\ Top.i > Len(Top.stubs)
    /\ frames' = Front(frames)
    /\ dirs_pc' = IF Len(frames) = 1 THEN "done" ELSE "running"
    /\ UNCHANGED <<stub_dir, impl_dir, args, log, written>>

\* Bound of the directory inputs: the entries of the stub root.
MaxEntries == 2

OkStub == <<StubClass("A", TRUE, <<>>)>>
RaisingStub == <<AssignCall("T", <<"TypeVar">>), ImportStar("typing"),
                 StubClass("A", TRUE, <<>>)>>
OkImpl == <<ClassDef("A", "SimpleStatementSuite", <<Pass>>)>>
RaisingImpl == <<ClassDef("A", "SimpleStatementSuite", <<ClassGetItem(<<"GenericAlias">>)>>)>>
\* A stub entry with what stands for it in the implementation directory.
Pair(stubEntry, implEntries) == [stub |-> stubEntry, impl |-> implEntries]
FilePairs ==
    { Pair(FileEntry(<<"m">> \o PYI, OkStub), {FileEntry(<<"m">> \o PY, OkImpl)}),
      Pair(FileEntry(<<"r">> \o PYI, RaisingStub), {FileEntry(<<"r">> \o PY, OkImpl)}),
      Pair(FileEntry(<<"e">> \o PYI, OkStub), {FileEntry(<<"e">> \o PY, RaisingImpl)}),
      Pair(FileEntry(<<"n">> \o PYI, OkStub), {}),
      Pair(FileEntry(<<"k">> \o PYI, OkStub), {ImplDirEntry(<<"k">> \o PY, {})}) }
SubDirPairs ==
    { Pair(StubDirEntry(<<"d">>, <<fp.stub>>), {ImplDirEntry(<<"d">>, fp.impl)}) :
         fp \in {q \in FilePairs : q.stub.name \in {<<"m">> \o PYI, <<"r">> \o PYI}} }
DirPairs ==
    FilePairs \cup SubDirPairs
    \cup { Pair(StubDirEntry(IGNORE_NAMES, <<>>), {}),
           Pair(StubDirEntry(<<"x">>, <<>>), {}) }
Listings ==
    {l \in NonEmptySeqsUpTo(DirPairs, MaxEntries) :
        \A a, b \in 1..Len(l) : a # b => l[a].stub.name # l[b].stub.name}

DirsInit ==
    /\ \E l \in Listings :
          /\ stub_dir = [k \in 1..Len(l) |-> l[k].stub]
          /\ impl_dir = UNION {l[k].impl : k \in 1..Len(l)}
    /\ args \in [fix : BOOLEAN, runtime : BOOLEAN]
    /\ frames = <<[stubs |-> stub_dir, impl |-> impl_dir,
                   stub_path |-> <<StubRoot>>, impl_path |-> <<ImplRoot>>, i |-> 1]>>
    /\ log = <<>>
    /\ written = {}
    /\ dirs_pc = "running"

DirsIdle ==
    /\ stub_dir = <<>> /\ impl_dir = {}
    /\ args = [fix |-> FALSE, runtime |-> FALSE]
    /\ frames = <<>> /\ log = <<>> /\ written = {}
    /\ dirs_pc = "idle"

vars == <<pathVars, detVars, patchVars, cmpVars, dirVars>>

InitPath == PathInit /\ DetectIdle /\ PatchIdle /\ CmpIdle /\ DirsIdle
NextPath == Convert /\ UNCHANGED <<detVars, patchVars, cmpVars, dirVars>>
SpecPath == InitPath /\ [][NextPath]_vars

InitDetect == DetectInit /\ PathIdle /\ PatchIdle /\ CmpIdle /\ DirsIdle
NextDetect ==
    \/ VisitImport /\ UNCHANGED <<pathVars, patchVars, cmpVars, dirVars>>
    \/ VisitImportFrom /\ UNCHANGED <<pathVars, patchVars, cmpVars, dirVars>>
    \/ VisitAssign /\ UNCHANGED <<pathVars, patchVars, cmpVars, dirVars>>
    \/ VisitClassDef /\ UNCHANGED <<pathVars, patchVars, cmpVars, dirVars>>
SpecDetect == InitDetect /\ [][NextDetect]_vars

InitPatch == PatchInit /\ PathIdle /\ DetectIdle /\ CmpIdle /\ DirsIdle
NextPatch ==
    \/ ApplyFirst /\ UNCHANGED <<pathVars, detVars, cmpVars, dirVars>>
    \/ ApplySecond /\ UNCHANGED <<pathVars, detVars, cmpVars, dirVars>>
SpecPatch == InitPatch /\ [][NextPatch]_vars

Init == CmpInit /\ PathIdle /\ DetectIdle /\ PatchIdle /\ DirsIdle
Next ==
    \/ Run /\ UNCHANGED <<pathVars, detVars, patchVars, dirVars>>
    \/ ReRun /\ UNCHANGED <<pathVars, detVars, patchVars, dirVars>>
Spec == Init /\ [][Next]_vars

InitDirs == DirsInit /\ PathIdle /\ DetectIdle /\ PatchIdle /\ CmpIdle
NextDirs ==
    \/ DirIgnored /\ UNCHANGED <<pathVars, detVars, patchVars, cmpVars>>
    \/ DirMissing /\ UNCHANGED <<pathVars, detVars, patchVars, cmpVars>>
    \/ DirRecurse /\ UNCHANGED <<pathVars, detVars, patchVars, cmpVars>>
    \/ DirCompare /\ UNCHANGED <<pathVars, detVars, patchVars, cmpVars>>
    \/ DirMismatch /\ UNCHANGED <<pathVars, detVars, patchVars, cmpVars>>
    \/ DirReturn /\ UNCHANGED <<pathVars, detVars, patchVars, cmpVars>>
SpecDirs == InitDirs /\ [][NextDirs]_vars

(***************************************************************************)
(* Claims                                                                  *)
(***************************************************************************)

\* The declarative reading of the detector's pass: the binding the last
\* TypeVar-binding import before statement i left, the names registered by
\* matching constructions before i, and the classes detected before i.
BindsTypeVar(s) ==
    \/ s.kind = "Import" /\ \E i \in 1..Len(s.names) : s.names[i].name = "typing"
    \/ /\ s.kind = "ImportFrom"
       /\ s.module = "typing"
       /\ (s.star \/ \E i \in 1..Len(s.names) : s.names[i].name = "TypeVar")
LocalName(names, n) ==
    LET first == CHOOSE i \in 1..Len(names) :
                     /\ names[i].name = n
                     /\ \A j \in 1..(i - 1) : names[j].name # n
    IN IF names[first].asname # "" THEN names[first].asname ELSE n
BoundAs(s) ==
    IF s.kind = "Import" THEN <<LocalName(s.names, "typing"), "TypeVar">>
    ELSE IF s.star THEN <<"TypeVar">>
    ELSE <<LocalName(s.names, "TypeVar")>>
ActiveBinding(i) ==
    LET J == {j \in 1..(i - 1) : BindsTypeVar(stub[j])} IN
    IF J = {} THEN <<>> ELSE BoundAs(stub[CHOOSE j \in J : \A k \in J : k <= j])
Constructs(k) ==
    /\ stub[k].kind = "Assign"
    /\ stub[k].call
    /\ ActiveBinding(k) # <<>>
    /\ Len(stub[k].func) = Len(ActiveBinding(k))
    /\ stub[k].func = ActiveBinding(k)
RegisteredBefore(i) == {stub[k].target : k \in {j \in 1..(i - 1) : Constructs(j)}}
IndexedByRegistered(j) ==
    \E b \in 1..Len(stub[j].bases) :
        /\ stub[j].bases[b].subscript
        /\ \E x \in 1..Len(stub[j].bases[b].slice) :
              stub[j].bases[b].slice[x] \in RegisteredBefore(j)
DetectedBefore(i) ==
    {j \in 1..(i - 1) :
        /\ stub[j].kind = "ClassDef"
        /\ (stub[j].type_parameters \/ IndexedByRegistered(j))}

\* C7: in the single top-to-bottom pass the registered type variables are
\* exactly the targets of call assignments that match the import binding
\* active at that assignment (last import wins, dotted against dotted, bare
\* against bare), and the classes recorded so far are exactly those with
\* type-parameter syntax or a subscripted base indexed by a name registered
\* before the class: a construction before its governing import registers
\* nothing and the class that depends on it is not recorded.
C7_OrderSensitiveDetection ==
    /\ ToSet(visitor._typevars) = RegisteredBefore(pos)
    /\ ToSet(visitor._generic_class_names) = {stub[j].name : j \in DetectedBefore(pos)}
    /\ Len(visitor._generic_class_names) = Cardinality(DetectedBefore(pos))

\* C7 witness: the pass is over, a type variable was constructed before the
\* import that would have governed it, and the class indexed by it was not
\* recorded.
C7_Witness ==
    /\ pos = Len(stub) + 1
    /\ \E k, i, j \in 1..Len(stub) :
          /\ k < i /\ i < j
          /\ stub[k].kind = "Assign" /\ stub[k].call
          /\ ActiveBinding(k) = <<>>
          /\ BindsTypeVar(stub[i]) /\ BoundAs(stub[i]) = stub[k].func
          /\ stub[j].kind = "ClassDef" /\ ~stub[j].type_parameters
          /\ \E b \in 1..Len(stub[j].bases) :
                stub[j].bases[b].subscript /\ stub[k].target \in ToSet(stub[j].bases[b].slice)
          /\ stub[j].name \notin ToSet(visitor._generic_class_names)

\* The path with exactly the extension removed from its end.
StripSuffix(s, e) == SubSeq(s, 1, Len(s) - Len(e))

\* C10: for a path whose name ends with the extension, the module path is
\* the dot-joined parts with exactly that extension removed from the end and
\* no other character removed.
C10_ExactlyExtensionRemoved ==
    path_pc = "done" => module_path = StripSuffix(join(<<".">>, path_parts), ext)

\* Readings of a syntax tree used by the patcher's claims.
\* The alias imports `from types import GenericAlias` anywhere in the tree.
RECURSIVE CountSynth(_)
CountSynth(stmts) ==
    IF stmts = <<>> THEN 0
    ELSE (IF stmts[1] = ImportGenericAlias THEN 1
          ELSE IF stmts[1].kind \in {"SimpleStatementLine", "ClassDef", "FunctionDef"}
          THEN CountSynth(stmts[1].body)
          ELSE 0) + CountSynth(Tail(stmts))
\* The imports of the alias facility, in any form, anywhere in the tree.
RECURSIVE CountFacility(_)
CountFacility(stmts) ==
    IF stmts = <<>> THEN 0
    ELSE (IF stmts[1].kind \in {"Import", "ImportFrom"}
          THEN (IF AliasesBound(stmts[1]) # {} THEN 1 ELSE 0)
          ELSE IF stmts[1].kind \in {"SimpleStatementLine", "ClassDef", "FunctionDef"}
          THEN CountFacility(stmts[1].body)
          ELSE 0) + CountFacility(Tail(stmts))
\* The classes of the tree at any depth, in source order.
RECURSIVE ClassList(_)
ClassList(stmts) ==
    IF stmts = <<>> THEN <<>>
    ELSE (IF stmts[1].kind = "ClassDef" THEN <<stmts[1]>> \o ClassList(stmts[1].body)
          ELSE IF stmts[1].kind = "FunctionDef" THEN ClassList(stmts[1].body)
          ELSE <<>>) \o ClassList(Tail(stmts))
\* The tree in source order as marks: "import" for the alias import, a
\* class's name where the class starts.
RECURSIVE Marks(_)
Marks(stmts) ==
    IF stmts = <<>> THEN <<>>
    ELSE (IF stmts[1] = ImportGenericAlias THEN <<"import">>
          ELSE IF stmts[1].kind = "ClassDef" THEN <<stmts[1].name>> \o Marks(stmts[1].body)
          ELSE IF stmts[1].kind \in {"SimpleStatementLine", "FunctionDef"} THEN Marks(stmts[1].body)
          ELSE <<>>) \o Marks(Tail(stmts))
FirstIndex(marks, S) ==
    LET I == {i \in 1..Len(marks) : marks[i] \in S} IN
    IF I = {} THEN 0 ELSE CHOOSE i \in I : \A k \in I : i <= k
\* The members of a class body: its small statements, and the kind and name
\* of each nested class or function.
RECURSIVE MemberKeys(_)
MemberKeys(body) ==
    IF body = <<>> THEN <<>>
    ELSE (IF body[1].kind = "SimpleStatementLine" THEN body[1].body
          ELSE IF body[1].kind \in {"ClassDef", "FunctionDef"}
          THEN <<[kind |-> body[1].kind, name |-> body[1].name]>>
          ELSE <<body[1]>>) \o MemberKeys(Tail(body))
TopClasses(tree) == SelectSeq(tree, LAMBDA n : n.kind = "ClassDef")
SomeFlagged(tree, names) == \E k \in 1..Len(ClassList(tree)) : ClassList(tree)[k].name \in names
NoClassGetItem(tree) == \A k \in 1..Len(ClassList(tree)) : ~HasClassGetItem(ClassList(tree)[k])

\* C2: when the first application of the transformer inserted the import
\* `from types import GenericAlias` into a file that imported nothing of the
\* alias facility, a second application to its output does not insert the
\* import again, wherever the classes flagged the second time stand.
C2_ImportNotInsertedTwice ==
    (patch_pc = "twice" /\ CountFacility(src0) = 0 /\ CountSynth(src1) >= 1)
        => CountSynth(src2) <= CountSynth(src1)

\* C3: one application to a file with no import of the alias facility and a
\* flagged class synthesizes exactly one import and places it before the
\* first flagged class; and the alias named by every inserted member is
\* bound by an import visible at that class (checked on files that held no
\* such member before, so that every member of the output is an inserted one).
C3_OneVisibleImport ==
    patch_pc = "once" =>
        /\ (CountFacility(src0) = 0 /\ SomeFlagged(src0, names1)) =>
              /\ CountSynth(src1) = 1
              /\ FirstIndex(Marks(src1), {"import"}) < FirstIndex(Marks(src1), names1)
        /\ NoClassGetItem(src0) => ~Unbound(src1, FALSE, {}, {}, TRUE)

\* C4: in the transformer's output every class whose name is flagged, at any
\* depth, has its former members in their order followed by exactly one new
\* member __class_getitem__ = classmethod(<alias>).
C4_MemberAppended ==
    patch_pc = "once" =>
        /\ Len(ClassList(src1)) = Len(ClassList(src0))
        /\ \A k \in 1..Len(ClassList(src0)) :
              ClassList(src0)[k].name \in names1 =>
                  LET before == MemberKeys(ClassList(src0)[k].body)
                      after == MemberKeys(ClassList(src1)[k].body)
                  IN /\ Len(after) = Len(before) + 1
                     /\ SubSeq(after, 1, Len(before)) = before
                     /\ IsClassGetItem(Last(after))

\* C5: when the flagged names are classes of the module, every class of the
\* module that is not flagged comes out identical to the input.
C5_OthersUntouched ==
    (patch_pc = "once" /\ names1 \subseteq ModuleClassNames(src0)) =>
        /\ Len(TopClasses(src1)) = Len(TopClasses(src0))
        /\ \A k \in 1..Len(TopClasses(src0)) :
              TopClasses(src0)[k].name \notin names1 => TopClasses(src1)[k] = TopClasses(src0)[k]

Runs == IF cmp_pc = "ran" THEN {run1} ELSE IF cmp_pc = "reran" THEN {run1, run2} ELSE {}

\* C1: once compare_files with fix has rewritten the implementation, the
\* pipeline run again on the pair imports the patched implementation and
\* finds no unsupported class.
C1_PatchIdempotent ==
    (cmp_pc = "reran" /\ run1.wrote) =>
        /\ ~run2.raised
        /\ run2.import_called /\ ~run2.import_failed
        /\ run2.errors = {}

\* C6: when the detector returns no generic class, compare_files returns
\* without importing the implementation, reports nothing and leaves the file
\* as it was, with and without fix.
C6_NoGenericNoImport ==
    \A r \in Runs :
        (~r.raised /\ r.generic = {}) =>
            /\ ~r.import_called
            /\ r.errors = {}
            /\ ~r.wrote /\ r.after = r.before

\* C6 witness: a run with fix for a stub without generic classes, on an
\* implementation whose classes lack the capability.
C6_Witness ==
    /\ cmp_pc = "ran"
    /\ run1.fix /\ ~run1.raised /\ run1.generic = {}
    /\ \E n \in ModuleClassNames(run1.before) :
          ~HasClassGetItem(run1.before[TopClassIndex(run1.before, n)])

\* C9: a run without fix, and a run that finds no unsupported class, leave
\* the implementation file's content as it was.
C9_WriteOnlyOnFix ==
    \A r \in Runs :
        (~r.fix \/ r.errors = {}) => (~r.wrote /\ r.after = r.before)

\* C9 witness: a run without fix that reported an unsupported class.
C9_Witness ==
    /\ cmp_pc = "ran"
    /\ ~run1.fix /\ run1.errors # {}

\* The paths of the stub tree's entries that the traversal is to reach: the
\* entries of the root, and of every directory it recurses into.
RECURSIVE EntryPaths(_, _, _)
EntryPaths(stubs, impl, prefix) ==
    UNION {
        {prefix \o <<stubs[k].name>>}
        \cup (IF /\ stubs[k].is_dir
                 /\ ~InString(stubs[k].name, IGNORE_NAMES)
                 /\ Exists(impl, ImplName(stubs[k]))
                 /\ Entry(impl, ImplName(stubs[k])).is_dir
              THEN EntryPaths(stubs[k].children, Entry(impl, ImplName(stubs[k])).children,
                              prefix \o <<stubs[k].name>>)
              ELSE {})
        : k \in 1..Len(stubs)}
Logged == {log[k].path : k \in 1..Len(log)}

\* C8: no entry's failure stops the run: an entry with no counterpart, with
\* a counterpart of the other kind, or whose stub or implementation module
\* failed to import never has its implementation file written, and when the
\* traversal has ended every entry of the stub tree has been reached.
C8_FailureNeverStopsRun ==
    /\ \A k \in 1..Len(log) :
          log[k].result \in {"missing", "mismatch", "raised", "import_failed"}
              => log[k].impl \notin written
    /\ dirs_pc \in {"done", "crashed"}
          => EntryPaths(stub_dir, impl_dir, <<StubRoot>>) \subseteq Logged
====
